---- MODULE Spec2Model ----
(***************************************************************************)
(* A model of vmz (src/main.c): the NaN-boxed value (NaNBox), the          *)
(* instruction codec over the static record buffer `ret`, and the Flags    *)
(* register.                                                               *)
(*                                                                         *)
(* A 64-bit quantity (uint64_t, int64_t in two's complement, or the bit    *)
(* pattern of a double) is a tuple of four 16-bit limbs, most significant  *)
(* limb first: <<0x7FF0, 0, 0, 5>> is 0x7FF0000000000005.                  *)
(***************************************************************************)
EXTENDS Integers, Sequences, FiniteSets

VARIABLES
    box,        \* NaNBox: the bit pattern of the double the last constructor returned
    boxSrc,     \* which constructor produced box
    boxIn,      \* the argument that constructor was given
    asI64,      \* what the last nan_as_i64(&box) returned
    ret,        \* static uint8_t ret[INST_STR_CAP]
    encIn,      \* the Inst (or Inst_Value) handed to the last encode call
    encRes,     \* what that call returned: "ret", "NULL", "abort" (assert failed)
    encWrites,  \* offsets from ret the last encode call stored to
    spill,      \* bytes stored past the end of ret (offset -> byte)
    calls,      \* number of encode calls made
    held,       \* the first returned record as its caller read it on return
    decBuf,     \* the buffer handed to the last decode call
    decReads,   \* offsets from bytes the last decode call loaded from
    decCopied,  \* how many bytes its memcpy stored into the local destination
    decRc,      \* its return value "0" or "1", or "crash"
    out,        \* the caller's Inst that decode is given to fill
    flags,      \* Flags.buf
    lastOp,     \* per flag, the most recent operation addressed to it
    wasSet      \* the flags flag_set was ever called on

vars == <<box, boxSrc, boxIn, asI64, ret, encIn, encRes, encWrites, spill, calls,
          held, decBuf, decReads, decCopied, decRc, out, flags, lastOp, wasSet>>

nanVars == <<box, boxSrc, boxIn, asI64>>
codecVars == <<ret, encIn, encRes, encWrites, spill, calls, held,
               decBuf, decReads, decCopied, decRc, out>>
flagVars == <<flags, lastOp, wasSet>>

-----------------------------------------------------------------------------
(* 64-bit words *)

W16 == 65536

RECURSIVE And16(_, _)
And16(a, b) ==
    IF a = 0 \/ b = 0 THEN 0
    ELSE ((a % 2) * (b % 2)) + 2 * And16(a \div 2, b \div 2)

Or16(a, b) == a + b - And16(a, b)

WAnd(x, y) == <<And16(x[1], y[1]), And16(x[2], y[2]), And16(x[3], y[3]), And16(x[4], y[4])>>

WOr(x, y) == <<Or16(x[1], y[1]), Or16(x[2], y[2]), Or16(x[3], y[3]), Or16(x[4], y[4])>>

WNot(x) == <<W16 - 1 - x[1], W16 - 1 - x[2], W16 - 1 - x[3], W16 - 1 - x[4]>>

Zero == <<0, 0, 0, 0>>

One == <<0, 0, 0, 1>>

\* x << n, 0 <= n < 64: whole limbs, then the remaining bits
Shl(x, n) ==
    LET q == n \div 16
        r == n % 16
        y == x \o <<0, 0, 0, 0>>
        z == <<y[1 + q], y[2 + q], y[3 + q], y[4 + q]>>
        hi == 2 ^ (16 - r)
    IN  <<((z[1] % hi) * 2 ^ r) + (z[2] \div hi),
          ((z[2] % hi) * 2 ^ r) + (z[3] \div hi),
          ((z[3] % hi) * 2 ^ r) + (z[4] \div hi),
          (z[4] % hi) * 2 ^ r>>

\* x >> n, 0 <= n < 64
Shr(x, n) ==
    LET q == n \div 16
        r == n % 16
        y == <<0, 0, 0, 0>> \o x
        z == <<y[5 - q], y[6 - q], y[7 - q], y[8 - q]>>
        lo == 2 ^ r
    IN  <<z[1] \div lo,
          (z[2] \div lo) + (z[1] % lo) * 2 ^ (16 - r),
          (z[3] \div lo) + (z[2] % lo) * 2 ^ (16 - r),
          (z[4] \div lo) + (z[3] % lo) * 2 ^ (16 - r)>>

WInc(x) ==
    LET a == x[4] + 1
        b == x[3] + (a \div W16)
        c == x[2] + (b \div W16)
        d == x[1] + (c \div W16)
    IN  <<d % W16, c % W16, b % W16, a % W16>>

\* x - 1 (mod 2^64)
WDec(x) == WNot(WInc(WNot(x)))

\* -x in two's complement
WNeg(x) == WInc(WNot(x))

\* the word of an integer literal n, -2^31 < n < 2^31
FromInt(n) ==
    IF n >= 0 THEN <<0, 0, n \div W16, n % W16>>
    ELSE WNeg(<<0, 0, (-n) \div W16, (-n) % W16>>)

\* the index of the highest set bit of a nonzero word
HighBit16(a) == CHOOSE p \in 0..15 : a \div (2 ^ p) = 1

HighBit(x) ==
    IF x[1] # 0 THEN 48 + HighBit16(x[1])
    ELSE IF x[2] # 0 THEN 32 + HighBit16(x[2])
    ELSE IF x[3] # 0 THEN 16 + HighBit16(x[3])
    ELSE HighBit16(x[4])

Bit(x, i) == (x[4 - i \div 16] \div (2 ^ (i % 16))) % 2

-----------------------------------------------------------------------------
(* IEEE-754 binary64 and the C conversions between double and uint64_t *)

MANT_BITS == 52

EXP_BIAS == 1023

MantOf(d) == <<d[1] % 16, d[2], d[3], d[4]>>

ExpOf(d) == (d[1] \div 16) % 2048

SignOf(d) == d[1] \div 32768

\* x != x
IsNaN(d) == ExpOf(d) = 2047 /\ MantOf(d) # Zero

\* (double) n for a uint64_t n: round to nearest, ties to even, to 53 bits
U64ToF64(n) ==
    IF n = Zero THEN Zero
    ELSE LET p == HighBit(n)
         IN  IF p <= MANT_BITS
             THEN LET sig == Shl(n, MANT_BITS - p)
                  IN  WOr(MantOf(sig), <<(EXP_BIAS + p) * 16, 0, 0, 0>>)
             ELSE LET s == p - MANT_BITS
                      q == Shr(n, s)
                      r == n[4] % (2 ^ s)
                      half == 2 ^ (s - 1)
                      up == r > half \/ (r = half /\ q[4] % 2 = 1)
                      sig == IF up THEN WInc(q) ELSE q
                  IN  IF Bit(sig, MANT_BITS + 1) = 1
                      THEN <<(EXP_BIAS + p + 1) * 16, 0, 0, 0>>
                      ELSE WOr(MantOf(sig), <<(EXP_BIAS + p) * 16, 0, 0, 0>>)

\* (uint64_t) d is defined when the truncated value of d is in 0 .. 2^64 - 1
F64ToU64Defined(d) ==
    /\ ExpOf(d) # 2047
    /\ ExpOf(d) < EXP_BIAS + 64
    /\ (SignOf(d) = 1 => ExpOf(d) < EXP_BIAS)

\* (uint64_t) d where defined: truncation toward zero
F64ToU64(d) ==
    IF ExpOf(d) < EXP_BIAS THEN Zero
    ELSE LET sig == WOr(MantOf(d), <<16, 0, 0, 0>>)
             e == ExpOf(d) - EXP_BIAS
         IN  IF e >= MANT_BITS THEN Shl(sig, e - MANT_BITS) ELSE Shr(sig, MANT_BITS - e)

-----------------------------------------------------------------------------
(* NaNBox *)

TYPE_I64 == 0

TYPE_U64 == 1

TYPE_F64 == 2

TYPE_STR == 3

TYPE_U8 == 4

EXP_MASK == Shl(WDec(Shl(One, 11)), 52)

TYPE_MASK == Shl(WDec(Shl(One, 4)), 48)

VALUE_MASK == WDec(Shl(One, 48))

nan_make_inf == U64ToF64(EXP_MASK)

nan_is_nan(nan) == IsNaN(nan)

nan_set_type(x, ty) ==
    LET bits == F64ToU64(x)
        tv == FromInt(ty)
    IN  U64ToF64(WOr(WAnd(bits, WNot(TYPE_MASK)), Shl(WAnd(tv, FromInt(15)), 48)))

nan_get_type(nan) ==
    IF nan_is_nan(nan) THEN TYPE_F64
    ELSE Shr(WAnd(F64ToU64(nan), TYPE_MASK), 48)[4]

\* (int) v keeps the low 32 bits; abs(INT_MIN) is undefined
AbsDefined(v) == ~(v[3] = 32768 /\ v[4] = 0)

\* (uint64_t) abs((int) v)
AbsInt(v) ==
    IF v[3] < 32768 THEN <<0, 0, v[3], v[4]>>
    ELSE LET m == WNeg(<<W16 - 1, W16 - 1, v[3], v[4]>>) IN <<0, 0, m[3], m[4]>>

nan_set_value(x, v) ==
    LET y == IF v = Zero THEN Shl(One, 63) ELSE Zero
    IN  U64ToF64(WOr(WOr(WAnd(F64ToU64(x), WNot(VALUE_MASK)),
                         WAnd(AbsInt(v), VALUE_MASK)), y))

nan_get_value(nan) ==
    LET bits == F64ToU64(nan)
        v == WAnd(bits, VALUE_MASK)
    IN  IF WAnd(bits, Shl(One, 63)) # Zero THEN WNeg(v) ELSE v

nan_is_f64(nan) == ~nan_is_nan(nan)

nan_is_i64(nan) == nan_is_nan(nan) /\ nan_get_type(nan) = TYPE_I64

nan_is_u64(nan) == nan_is_nan(nan) /\ nan_get_type(nan) = TYPE_U64

nan_is_str(nan) == nan_is_nan(nan) /\ nan_get_type(nan) = TYPE_STR

nan_as_i64(nan) == nan_get_value(nan)

nan_from_f64(f) == f

nan_from_i64(f) == nan_set_type(nan_set_value(nan_make_inf, f), TYPE_I64)

nan_from_u64(f) == nan_set_type(nan_set_value(nan_make_inf, f), TYPE_U64)

nan_from_u8(f) == nan_set_type(nan_set_value(nan_make_inf, FromInt(f)), TYPE_U8)

\* str is given by its length: strlen(str) is all nan_from_str reads
nan_from_str(len) == nan_set_type(nan_set_value(nan_make_inf, FromInt(len)), TYPE_STR)

-----------------------------------------------------------------------------
(* NaNBox: the calls a client makes *)

MaxK == 5

MaxBoxStrLen == 3

\* multiples of 1, 512 and 1024 (the rounding step of a double near 2^63 is
\* 1024), both signs, and magnitudes past 2^31 and near 2^47
I64Inputs ==
    {FromInt(s * k * c) : s \in {-1, 1}, k \in 0..MaxK, c \in {1, 512, 1024}}
        \cup {FromInt(2147483647), FromInt(-2147483647),
              <<0, 1, 0, 1024>>, <<0, 32768, 0, 1024>>, WNeg(<<0, 32768, 0, 5>>)}

U64Inputs == {i \in I64Inputs : i[1] < 32768}

U8Inputs == {0, 1, 7, 255}

\* 0.0, 1.5, -2.0, +inf, a quiet NaN, a NaN with the sign bit set, 2^63
F64Inputs ==
    {Zero, <<16376, 0, 0, 0>>, <<49152, 0, 0, 0>>, <<32752, 0, 0, 0>>,
     <<32760, 0, 0, 0>>, <<65528, 0, 0, 1>>, <<17376, 0, 0, 0>>}

NoWord == <<>>

InitNan ==
    /\ box = Zero
    /\ boxSrc = "none"
    /\ boxIn = NoWord
    /\ asI64 = NoWord

FromI64(i) ==
    /\ AbsDefined(i)
    /\ box' = nan_from_i64(i)
    /\ boxSrc' = "i64"
    /\ boxIn' = i
    /\ asI64' = NoWord
    /\ UNCHANGED <<codecVars, flagVars>>

FromU64(u) ==
    /\ AbsDefined(u)
    /\ box' = nan_from_u64(u)
    /\ boxSrc' = "u64"
    /\ boxIn' = u
    /\ asI64' = NoWord
    /\ UNCHANGED <<codecVars, flagVars>>

FromU8(b) ==
    /\ box' = nan_from_u8(b)
    /\ boxSrc' = "u8"
    /\ boxIn' = FromInt(b)
    /\ asI64' = NoWord
    /\ UNCHANGED <<codecVars, flagVars>>

FromStr(len) ==
    /\ box' = nan_from_str(len)
    /\ boxSrc' = "str"
    /\ boxIn' = FromInt(len)
    /\ asI64' = NoWord
    /\ UNCHANGED <<codecVars, flagVars>>

FromF64(f) ==
    /\ box' = nan_from_f64(f)
    /\ boxSrc' = "f64"
    /\ boxIn' = f
    /\ asI64' = NoWord
    /\ UNCHANGED <<codecVars, flagVars>>

\* nan_as_i64(&box); the conversion (uint64_t) nan->v of a NaN, an infinity or a
\* negative double is undefined: any word may come back
AsI64 ==
    /\ boxSrc # "none"
    /\ asI64 = NoWord
    /\ IF F64ToU64Defined(box)
       THEN asI64' = nan_as_i64(box)
       ELSE asI64' \in {Zero, <<32768, 0, 0, 0>>}
    /\ UNCHANGED <<box, boxSrc, boxIn, codecVars, flagVars>>

NextNan ==
    \/ \E i \in I64Inputs : FromI64(i)
    \/ \E u \in U64Inputs : FromU64(u)
    \/ \E b \in U8Inputs : FromU8(b)
    \/ \E len \in 0..MaxBoxStrLen : FromStr(len)
    \/ \E f \in F64Inputs : FromF64(f)
    \/ AsI64

-----------------------------------------------------------------------------
(* Flags *)

\* a & b on C ints, a >= 0; a negative b is the complement of -b - 1
RECURSIVE BitAnd(_, _)
BitAnd(a, b) ==
    IF b < 0 THEN a - BitAnd(a, -b - 1)
    ELSE IF a = 0 \/ b = 0 THEN 0
    ELSE ((a % 2) * (b % 2)) + 2 * BitAnd(a \div 2, b \div 2)

BitOr(a, b) == a + b - BitAnd(a, b)

\* ~a on a C int
BitNot(a) == -a - 1

\* enum Flag: FLAG_E, FLAG_G, FLAG_L, FLAG_NE, FLAG_GE, FLAG_LE
Flag == <<"FLAG_E", "FLAG_G", "FLAG_L", "FLAG_NE", "FLAG_GE", "FLAG_LE">>

FlagTags == {k - 1 : k \in DOMAIN Flag}

ONE == 1

flag_new == 0

flag_set_overwrites(buf, flag) == (ONE * 2 ^ flag) % 256

flag_set(buf, flag) == BitOr(buf, ONE * 2 ^ flag) % 256

flag_reset(buf, flag) == BitAnd(buf, BitNot(ONE * 2 ^ flag)) % 256

is(buf, flag) == (BitAnd(buf, ONE * 2 ^ flag) \div 2 ^ flag) # 0

InitFlags ==
    /\ flags = flag_new
    /\ lastOp = [f \in FlagTags |-> "none"]
    /\ wasSet = {}

FlagSet(f) ==
    /\ flags' = flag_set(flags, f)
    /\ lastOp' = [lastOp EXCEPT ![f] = "set"]
    /\ wasSet' = wasSet \cup {f}
    /\ UNCHANGED <<nanVars, codecVars>>

FlagReset(f) ==
    /\ flags' = flag_reset(flags, f)
    /\ lastOp' = [lastOp EXCEPT ![f] = "reset"]
    /\ UNCHANGED wasSet
    /\ UNCHANGED <<nanVars, codecVars>>

NextFlags ==
    \/ \E f \in FlagTags : FlagSet(f)
    \/ \E f \in FlagTags : FlagReset(f)

-----------------------------------------------------------------------------
(* Instructions and the codec's encoder *)

\* enum Inst_Type; an opcode is the position in the enum, from 0
Inst_Type ==
    <<"push", "pop", "fadd", "fdiv", "fsub", "fmul", "iadd", "idiv", "isub", "imul",
      "inc", "dec", "jmp", "je", "jne", "jg", "jl", "jle", "jge", "swap", "dup",
      "cmp", "dmp", "nop", "label", "native", "halt">>

Opcode(name) == (CHOOSE k \in DOMAIN Inst_Type : Inst_Type[k] = name) - 1

INST_V_TYPE_NAN == 0

INST_V_TYPE_NONE == 1

INST_V_TYPE_I64 == 2

INST_V_TYPE_U64 == 3

INST_V_TYPE_F64 == 4

INST_V_TYPE_STR == 5

INST_STR_CAP == 14

EightByteTypes == {INST_V_TYPE_NAN, INST_V_TYPE_I64, INST_V_TYPE_U64, INST_V_TYPE_F64}

inst_new(ty, v) == [ty |-> ty, v |-> v]

inst_value_new_nan(nan) == [ty |-> INST_V_TYPE_NAN, v |-> nan]

inst_value_new_void == [ty |-> INST_V_TYPE_NONE, v |-> Zero]

inst_value_new_i64(v) == [ty |-> INST_V_TYPE_I64, v |-> v]

inst_value_new_u64(v) == [ty |-> INST_V_TYPE_U64, v |-> v]

inst_value_new_f64(v) == [ty |-> INST_V_TYPE_F64, v |-> v]

\* a string is the sequence of its bytes before the terminating 0
inst_value_new_str(str) == [ty |-> INST_V_TYPE_STR, v |-> str]

\* the object representation of a 64-bit value: 8 bytes, least significant first
ObjectBytes(w) ==
    <<w[4] % 256, w[4] \div 256, w[3] % 256, w[3] \div 256,
      w[2] % 256, w[2] \div 256, w[1] % 256, w[1] \div 256>>

\* the 64-bit value whose object representation is the 8 bytes b
ObjectValue(b) ==
    <<b[7] + 256 * b[8], b[5] + 256 * b[6], b[3] + 256 * b[4], b[1] + 256 * b[2]>>

\* memory at ret: the 14 bytes of the array and what lies past its end
\* m.ret[k + 1] is ret[k]; m.spill[j] is the byte at ret + 13 + j.
\* StoreAll is m after the stores <<offset, byte>> of one call, made in order
\* (a later store to an offset wins; the offsets past the end are contiguous)
StoreAll(m, stores) ==
    LET At(off) == {j \in DOMAIN stores : stores[j][1] = off}
        Last(off) == CHOOSE j \in At(off) : \A i \in At(off) : i <= j
        Byte(off, old) == IF At(off) = {} THEN old ELSE stores[Last(off)][2]
        past == {stores[j][1] - INST_STR_CAP + 1 : j \in DOMAIN stores} \cap (1..256)
        n == Cardinality(past \cup DOMAIN m.spill)
    IN  [ret |-> [k \in 1..INST_STR_CAP |-> Byte(k - 1, m.ret[k])],
         spill |-> [j \in 1..n |->
                      Byte(INST_STR_CAP + j - 1,
                           IF j <= Len(m.spill) THEN m.spill[j] ELSE 0)]]

Store(m, off, b) == StoreAll(m, <<<<off, b>>>>)

\* memcpy(ret + off, src, Len(src))
Memcpy(off, src) == [k \in 1..Len(src) |-> <<off + k - 1, src[k]>>]

\* the stores inst_value_to_bytes makes, in order, each <<offset, byte>>
ValueStores(iv) ==
    LET size == 2
    IN  <<<<1, iv.ty>>>> \o
        (IF iv.ty \in EightByteTypes THEN Memcpy(size, ObjectBytes(iv.v))
         ELSE IF iv.ty = INST_V_TYPE_STR
         THEN IF Len(iv.v) > INST_STR_CAP - size THEN <<>>
              ELSE <<<<size, Len(iv.v) % 256>>>> \o Memcpy(size + 1, iv.v)
         ELSE <<>>)

\* inst_value_to_bytes on memory m: the memory after, the offsets stored to, and
\* the pointer returned
inst_value_to_bytes(iv, m) ==
    LET size == 2
        stores == ValueStores(iv)
    IN  [m |-> StoreAll(m, stores),
         writes |-> {stores[k][1] : k \in DOMAIN stores},
         res |-> IF iv.ty = INST_V_TYPE_STR /\ Len(iv.v) > INST_STR_CAP - size
                 THEN "NULL" ELSE "ret"]

inst_type_to_bytes(ty) == ty % 256

\* inst_to_bytes: assert(bytes != NULL) ends the run when the value was rejected
inst_to_bytes(inst, m) ==
    LET r == inst_value_to_bytes(inst.v, m)
    IN  IF r.res = "NULL" THEN [r EXCEPT !.res = "abort"]
        ELSE [m |-> Store(r.m, 0, inst_type_to_bytes(inst.ty)),
              writes |-> r.writes \cup {0},
              res |-> r.res]

-----------------------------------------------------------------------------
(* The codec's decoder *)

\* bytes[off] of a buffer given to the decoder. A buffer is the static array
\* itself (own = FALSE) or a caller's array (own = TRUE); past the end of the
\* array the load is out of bounds: it finds what was spilled past ret, or the
\* indeterminate byte g
Load(buf, sp, off, g) ==
    IF off < Len(buf.bytes) THEN buf.bytes[off + 1]
    ELSE IF ~buf.own /\ off - INST_STR_CAP < Len(sp) THEN sp[off - INST_STR_CAP + 1]
    ELSE g

\* the n bytes memcpy(dst, bytes + idx, n) loads
Loaded(buf, sp, idx, n, g) == [k \in 1..n |-> Load(buf, sp, idx + k - 1, g)]

\* a C string read from memory: the bytes before the first 0
UpToNul(b) ==
    LET nul == {k \in DOMAIN b : b[k] = 0}
        n == IF nul = {} THEN Len(b) ELSE (CHOOSE k \in nul : \A j \in nul : k <= j) - 1
    IN  SubSeq(b, 1, n)

\* inst_value_from_bytes(bytes, ret): the offsets loaded, the size of the local
\* the memcpy fills and the bytes it copies there, whether *ret is assigned and
\* to what, and the return value. For a string the Inst keeps the address of the
\* local array str, which is gone on return
inst_value_from_bytes(buf, sp, g) ==
    LET ty == Load(buf, sp, 0, g)
        vty == Load(buf, sp, 1, g)
        idx == 2
    IN  IF vty \in EightByteTypes
        THEN LET src == Loaded(buf, sp, idx, idx + 8, g)
                 f == ObjectValue(SubSeq(src, 1, 8))
             IN  [reads |-> 0..(idx + idx + 8 - 1), dst |-> 8, copied |-> src,
                  assigned |-> TRUE, inst |-> inst_new(ty, [ty |-> vty, v |-> f]),
                  rc |-> 0]
        ELSE IF vty = INST_V_TYPE_NONE
        THEN [reads |-> 0..1, dst |-> 0, copied |-> <<>>,
              assigned |-> FALSE, inst |-> inst_new(ty, inst_value_new_void), rc |-> 0]
        ELSE IF vty = INST_V_TYPE_STR
        THEN LET len == Load(buf, sp, idx, g)
                 src == Loaded(buf, sp, idx + 1, idx + 1 + len, g)
             IN  [reads |-> 0..(idx + 1 + idx + 1 + len - 1), dst |-> 16, copied |-> src,
                  assigned |-> TRUE, inst |-> inst_new(ty, inst_value_new_str(src)),
                  rc |-> 0]
        ELSE [reads |-> 0..1, dst |-> 0, copied |-> <<>>,
              assigned |-> FALSE, inst |-> inst_new(ty, inst_value_new_void), rc |-> 1]

inst_from_bytes(buf, sp, g) == inst_value_from_bytes(buf, sp, g)

-----------------------------------------------------------------------------
(* The codec: the calls a client makes *)

MaxCalls == 2

MaxLen == 13

Opcodes == {Opcode("push"), Opcode("halt")}

\* the string of length len: 'a', 'b', 'c', ...
Str(len) == [k \in 1..len |-> 96 + k]

\* -5 and 0x0102030405060708
WordInputs == {FromInt(-5), <<258, 772, 1286, 1800>>}

ValueInputs ==
    {inst_value_new_void}
        \cup {inst_value_new_i64(w) : w \in WordInputs}
        \cup {inst_value_new_u64(w) : w \in WordInputs}
        \cup {inst_value_new_f64(w) : w \in {<<16376, 0, 0, 0>>, <<32760, 0, 0, 0>>}}
        \cup {inst_value_new_nan(w) : w \in {nan_from_i64(FromInt(1024)),
                                              nan_from_f64(<<16376, 0, 0, 0>>)}}
        \cup {inst_value_new_str(Str(len)) : len \in 0..MaxLen}

InstInputs == {inst_new(op, iv) : op \in Opcodes, iv \in ValueInputs}

\* what a caller's Inst may hold before the decoder is given it
PriorInsts ==
    {inst_new(Opcode("nop"), inst_value_new_void),
     inst_new(Opcode("push"), inst_value_new_i64(FromInt(-5)))}

\* indeterminate bytes: what an out-of-bounds or uninitialized read may find
Indeterminate == {0, 170}

NoInst == [ty |-> -1, v |-> [ty |-> -1, v |-> <<>>]]

NoBuf == [own |-> FALSE, bytes |-> <<>>, prior |-> NoInst]

\* the number of bytes of the record of an operand
RecordLen(iv) ==
    IF iv.ty \in EightByteTypes THEN 2 + 8
    ELSE IF iv.ty = INST_V_TYPE_STR THEN 2 + 1 + Len(iv.v)
    ELSE 2

Min(a, b) == IF a < b THEN a ELSE b

InitCodec ==
    /\ ret = [k \in 1..INST_STR_CAP |-> 0]
    /\ spill = <<>>
    /\ encIn = [fn |-> "none", inst |-> NoInst]
    /\ encRes = "none"
    /\ encWrites = {}
    /\ calls = 0
    /\ held = <<>>
    /\ decBuf = NoBuf
    /\ decReads = {}
    /\ decCopied = 0
    /\ decRc = "none"
    /\ out = NoInst

\* one encode call; r is what it did. The caller of the first record reads it.
Encoded(fn, inst, r) ==
    /\ calls < MaxCalls
    /\ encRes # "abort"
    /\ ret' = r.m.ret
    /\ spill' = r.m.spill
    /\ encIn' = [fn |-> fn, inst |-> inst]
    /\ encRes' = r.res
    /\ encWrites' = r.writes
    /\ calls' = calls + 1
    /\ held' = IF held = <<>> /\ r.res = "ret"
               THEN SubSeq(r.m.ret, 1, Min(RecordLen(inst.v), INST_STR_CAP))
               ELSE held
    /\ decBuf' = NoBuf
    /\ decReads' = {}
    /\ decCopied' = 0
    /\ decRc' = "none"
    /\ out' = NoInst
    /\ UNCHANGED <<nanVars, flagVars>>

InstToBytes(inst) ==
    Encoded("inst_to_bytes", inst, inst_to_bytes(inst, [ret |-> ret, spill |-> spill]))

InstValueToBytes(iv) ==
    Encoded("inst_value_to_bytes", [ty |-> -1, v |-> iv],
            inst_value_to_bytes(iv, [ret |-> ret, spill |-> spill]))

\* what a caller reads through the Inst's str after the decoder returned: the
\* frame of the decoder as it was left (the copied bytes, then an indeterminate
\* byte of the array or of what follows it), or the frame reused
StrSeen(copied) ==
    {UpToNul(copied \o <<g>>) : g \in Indeterminate} \cup {<<g>> : g \in Indeterminate \ {0}}

\* Inst o = prior; inst_from_bytes(buf, &o). A memcpy of more bytes than the
\* local holds is undefined: the call returns all the same, or the run is ended
\* (a fortified or sanitized build).
Decode(buf, g, crash) ==
    /\ encRes = "ret"
    /\ decRc = "none"
    /\ LET d == inst_from_bytes(buf, spill, g)
       IN  /\ crash => Len(d.copied) > d.dst
           /\ decBuf' = buf
           /\ decReads' = d.reads
           /\ decCopied' = Len(d.copied)
           /\ decRc' = IF crash THEN "crash" ELSE IF d.rc = 0 THEN "0" ELSE "1"
           /\ IF crash \/ ~d.assigned THEN out' = buf.prior
              ELSE IF d.inst.v.ty = INST_V_TYPE_STR
              THEN \E seen \in StrSeen(d.copied) : out' = [d.inst EXCEPT !.v.v = seen]
              ELSE out' = d.inst
    /\ UNCHANGED <<ret, spill, encIn, encRes, encWrites, calls, held>>
    /\ UNCHANGED <<nanVars, flagVars>>

MinBuf == 2

\* the pointer the encoder returned, or a caller's array holding the first L
\* bytes of the record: all of it, all but its last byte, or its first two
Buffers ==
    LET n == Min(RecordLen(encIn.inst.v), INST_STR_CAP)
    IN  {[own |-> FALSE, bytes |-> ret, prior |-> p] : p \in PriorInsts}
            \cup {[own |-> TRUE, bytes |-> SubSeq(ret, 1, L), prior |-> p] :
                    L \in {MinBuf, n - 1, n} \cap (MinBuf..INST_STR_CAP), p \in PriorInsts}

NextCodec ==
    \/ \E inst \in InstInputs : InstToBytes(inst)
    \/ \E iv \in ValueInputs : InstValueToBytes(iv)
    \/ \E buf \in Buffers, g \in Indeterminate, crash \in BOOLEAN : Decode(buf, g, crash)

-----------------------------------------------------------------------------
(* Specifications. The three components share no state; each is checked under *)
(* the specification of its own calls.                                         *)

Init == InitNan /\ InitCodec /\ InitFlags

Next == NextNan \/ NextCodec \/ NextFlags

Spec == Init /\ [][Next]_vars

SpecNan == Init /\ [][NextNan]_vars

SpecCodec == Init /\ [][NextCodec]_vars

SpecFlags == Init /\ [][NextFlags]_vars

-----------------------------------------------------------------------------
(* Properties *)

\* C1. Codec round trip: decoding the bytes inst_to_bytes returned succeeds and
\* yields the instruction that was encoded: same opcode, same operand tag, same
\* operand value (for a string, the same content).
RoundTrip ==
    (encIn.fn = "inst_to_bytes" /\ encRes = "ret" /\ decRc # "none" /\ ~decBuf.own)
        => (decRc = "0" /\ out = encIn.inst)

\* C2. Encoding never overruns the record: every store of an accepted encode
\* call is at an offset 0..13 of ret, and the record (opcode, tag, payload) is at
\* most 14 bytes long.
NoOverrun ==
    encRes = "ret"
        => /\ encWrites \subseteq 0..(INST_STR_CAP - 1)
           /\ RecordLen(encIn.inst.v) <= INST_STR_CAP

\* C3. Encoding a string longer than the capacity that remains after the opcode
\* and the tag (INST_STR_CAP - size) fails: the caller gets an error value back
\* (the run is not aborted) and the call has stored nothing to the record
\* buffer, not even the operand tag.
TooLargeFailsCleanly ==
    (encIn.inst.v.ty = INST_V_TYPE_STR /\ Len(encIn.inst.v.v) > INST_STR_CAP - 2)
        => (encRes = "NULL" /\ encWrites = {})

\* the length of the record the header of a buffer implies
ImpliedLen(buf) ==
    LET vty == buf.bytes[2]
    IN  IF vty \in EightByteTypes THEN 2 + 8
        ELSE IF vty = INST_V_TYPE_STR
        THEN 2 + 1 + (IF Len(buf.bytes) >= 3 THEN buf.bytes[3] ELSE 0)
        ELSE 2

\* C4. Decoding validates length before reading: the decoder loads no byte at or
\* past the length of the record the operand tag implies, copies no more bytes
\* into the decoded value than the payload has, and, given a buffer shorter than
\* that record, returns an error and leaves the caller's instruction alone.
DecodeValidates ==
    decRc # "none"
        => LET n == ImpliedLen(decBuf)
               payload == IF decBuf.bytes[2] = INST_V_TYPE_STR THEN n - 3 ELSE n - 2
           IN  /\ decReads \subseteq 0..(n - 1)
               /\ decCopied <= payload
               /\ Len(decBuf.bytes) < n => (decRc = "1" /\ out = decBuf.prior)

\* C5. Encode calls share no storage: the record a call returned reads the same
\* after any later encode call as it did when it was returned.
NoSharedStorage == held # <<>> => SubSeq(ret, 1, Len(held)) = held

IsNeg(i) == i[1] >= 32768

Magnitude(i) == IF IsNeg(i) THEN WNeg(i) ELSE i

\* |i| < 2^48
InRange48(i) == Magnitude(i)[1] = 0

\* C6. Tagged Value integer round trip: for |i| < 2^48, nan_as_i64(nan_from_i64(i))
\* is i; the box keeps |i| in the 48-bit payload and the sign in bit 63 (zero,
\* which has no negative form, has bit 63 set to mark it).
IntRoundTrip ==
    (boxSrc = "i64" /\ InRange48(boxIn) /\ asI64 # NoWord)
        => /\ asI64 = boxIn
           /\ WAnd(F64ToU64(box), VALUE_MASK) = Magnitude(boxIn)
           /\ boxIn # Zero => ((WAnd(F64ToU64(box), Shl(One, 63)) # Zero) <=> IsNeg(boxIn))

\* the reserved tagging pattern: every bit of the exponent field set
Reserved(d) == WAnd(d, EXP_MASK) = EXP_MASK

\* C7. nan_is_f64 separates floats from boxed values: false of every value made
\* by nan_from_i64, nan_from_u64 or nan_from_u8, true of every value made by
\* nan_from_f64 from a double that is not of the reserved pattern.
FloatSeparated ==
    /\ boxSrc \in {"i64", "u64", "u8"} => ~nan_is_f64(box)
    /\ (boxSrc = "f64" /\ ~Reserved(boxIn)) => nan_is_f64(box)

\* C8. The boxed predicates identify the constructor: of a value made by
\* nan_from_i64 only nan_is_i64 is true, by nan_from_u64 only nan_is_u64, by
\* nan_from_str only nan_is_str; none is true of a genuine float.
BoxedPredicates ==
    /\ boxSrc = "i64" => (nan_is_i64(box) /\ ~nan_is_u64(box) /\ ~nan_is_str(box))
    /\ boxSrc = "u64" => (~nan_is_i64(box) /\ nan_is_u64(box) /\ ~nan_is_str(box))
    /\ boxSrc = "str" => (~nan_is_i64(box) /\ ~nan_is_u64(box) /\ nan_is_str(box))
    /\ (boxSrc = "f64" /\ ~Reserved(box))
           => (~nan_is_i64(box) /\ ~nan_is_u64(box) /\ ~nan_is_str(box))

\* C9. Flags independence: after any sequence of flag_set and flag_reset on a
\* register made by flag_new, is(f) is true exactly when the most recent
\* operation addressed to f was flag_set. An operation addressed to another flag
\* leaves lastOp[f] as it was, so it cannot have changed is(f).
FlagsIndependent == \A f \in FlagTags : is(flags, f) <=> lastOp[f] = "set"

\* C9's case: one flag reset after it was set, another set and still read as
\* set, a third never touched
FlagsWitness ==
    /\ 0 \in wasSet /\ lastOp[0] = "reset" /\ ~is(flags, 0)
    /\ lastOp[5] = "set" /\ is(flags, 5)
    /\ lastOp[2] = "none" /\ ~is(flags, 2)

\* C10. Wire layout: byte 0 of an encoded record is the opcode, byte 1 the
\* operand tag (0 boxed value, 1 none, 2 Int64, 3 UInt64, 4 Float, 5 Str), and
\* the payload starts at byte 2: exactly 8 bytes for tags 0, 2, 3, 4, none for
\* tag 1, and for tag 5 a length byte and then that many string bytes.
WireLayout ==
    (encIn.fn = "inst_to_bytes" /\ encRes = "ret")
        => LET iv == encIn.inst.v
           IN  /\ <<INST_V_TYPE_NAN, INST_V_TYPE_NONE, INST_V_TYPE_I64,
                    INST_V_TYPE_U64, INST_V_TYPE_F64, INST_V_TYPE_STR>> = <<0, 1, 2, 3, 4, 5>>
               /\ ret[1] = encIn.inst.ty
               /\ ret[2] = iv.ty
               /\ iv.ty \in EightByteTypes
                    => (SubSeq(ret, 3, 10) = ObjectBytes(iv.v) /\ encWrites = 0..9)
               /\ iv.ty = INST_V_TYPE_NONE => encWrites = 0..1
               /\ iv.ty = INST_V_TYPE_STR
                    => /\ ret[3] = Len(iv.v)
                       /\ 3 + Len(iv.v) <= INST_STR_CAP
                       /\ SubSeq(ret, 4, 3 + Len(iv.v)) = iv.v

====
